---- MODULE Spec2Model ----
(***************************************************************************)
(* A model of the Inliner MCP server (src/src/index.ts): the tool handlers *)
(* generate_image_url, generate_image, create_image and edit_image, with   *)
(* their string canonicalization, path construction, source-URL resolver   *)
(* and bounded status-poll loop.                                           *)
(*                                                                         *)
(* Strings are sequences of one-character strings, so that every regular   *)
(* expression, slice, template and parse of the source is computed         *)
(* character by character.  A JavaScript value that the source tests only  *)
(* for truthiness (an optional string, an optional number >= 100) is       *)
(* modelled by the empty sequence or 0 when it is absent: `if (edit)`,     *)
(* `width || sourceWidth`, `!project` treat undefined, "" and 0 alike.     *)
(***************************************************************************)
EXTENDS Integers, Sequences, FiniteSets, TLC

VARIABLES
    tool,         \* the handler that is running, or "none"
    pc,           \* its position: the await it is suspended at, or its end
    args,         \* the arguments of the invocation
    origin,       \* what the client knows of the source URL it passes on
    loc,          \* edit_image's locals (resolver output, edit slug)
    url,          \* const url (the viewable image URL)
    pathPart,     \* the resource path appended to the status endpoint
    attempt,      \* let attempt
    status,       \* let status
    imageBuffer,  \* let imageBuffer
    net,          \* the HTTP requests issued so far, by kind
    obs,          \* what the status responses of this invocation carried
    fs,           \* the file-system calls made by the invocation
    result        \* the value returned or the error thrown

vars == <<tool, pc, args, origin, loc, url, pathPart, attempt, status,
          imageBuffer, net, obs, fs, result>>

----------------------------------------------------------------------------
(* Characters and strings *)

LowerChars == <<"a", "b", "c", "d", "e", "f", "g", "h", "i", "j", "k", "l", "m",
                "n", "o", "p", "q", "r", "s", "t", "u", "v", "w", "x", "y", "z">>
UpperChars == <<"A", "B", "C", "D", "E", "F", "G", "H", "I", "J", "K", "L", "M",
                "N", "O", "P", "Q", "R", "S", "T", "U", "V", "W", "X", "Y", "Z">>
DigitChars == <<"0", "1", "2", "3", "4", "5", "6", "7", "8", "9">>

Range(s) == {s[i] : i \in 1..Len(s)}

Min(a, b) == IF a < b THEN a ELSE b

IsDigit(c) == c \in Range(DigitChars)

\* String.prototype.toLowerCase on one ASCII character
ToLowerChar(c) ==
    IF c \in Range(UpperChars)
    THEN LowerChars[CHOOSE i \in 1..Len(UpperChars) : UpperChars[i] = c]
    ELSE c

\* String.prototype.toLowerCase
ToLowerCase(s) == [i \in 1..Len(s) |-> ToLowerChar(s[i])]

\* the character class [a-z0-9-]
IsSlugChar(c) == c \in Range(LowerChars) \cup Range(DigitChars) \cup {"-"}

\* .replace(/[^a-z0-9-]/g, "-")
ReplaceNonSlug(s) == [i \in 1..Len(s) |-> IF IsSlugChar(s[i]) THEN s[i] ELSE "-"]

\* every character of s paired with the character before it
WithPrevious(s) == [i \in 1..Len(s) |-> <<s[i], IF i > 1 THEN s[i - 1] ELSE "">>]

\* the first components of a sequence of pairs
Firsts(q) == [i \in 1..Len(q) |-> q[i][1]]

\* .replace(/-+/g, "-"): of every run of hyphens the first is kept
CollapseHyphens(s) ==
    Firsts(SelectSeq(WithPrevious(s), LAMBDA p : ~(p[1] = "-" /\ p[2] = "-")))

\* .replace(/^-|-$/g, ""): one leading and one trailing hyphen are removed
StripEdgeHyphens(s) ==
    LET a == IF Len(s) > 0 /\ s[1] = "-" THEN SubSeq(s, 2, Len(s)) ELSE s
    IN  IF Len(a) > 0 /\ a[Len(a)] = "-" THEN SubSeq(a, 1, Len(a) - 1) ELSE a

\* .slice(0, n)
Slice0(s, n) == SubSeq(s, 1, Min(Len(s), n))

\* .replace(/-/g, " ")
HyphensToSpaces(s) == [i \in 1..Len(s) |-> IF s[i] = "-" THEN " " ELSE s[i]]

\* String.prototype.startsWith / endsWith
StartsWith(s, p) == Len(s) >= Len(p) /\ SubSeq(s, 1, Len(p)) = p
EndsWith(s, p) == Len(s) >= Len(p) /\ SubSeq(s, Len(s) - Len(p) + 1, Len(s)) = p

\* the decimal digits a template literal writes for a non-negative integer
RECURSIVE NumToString(_)
NumToString(n) ==
    IF n < 10 THEN <<DigitChars[n + 1]>>
    ELSE Append(NumToString(n \div 10), DigitChars[(n % 10) + 1])

DigitValue(c) == (CHOOSE i \in 1..10 : DigitChars[i] = c) - 1

\* parseInt(s, 10) of a string of decimal digits (what (\d+) captured)
RECURSIVE ParseInt(_)
ParseInt(s) ==
    IF Len(s) = 0 THEN 0
    ELSE 10 * ParseInt(SubSeq(s, 1, Len(s) - 1)) + DigitValue(s[Len(s)])

IsDigits(s) == Len(s) > 0 /\ \A i \in 1..Len(s) : IsDigit(s[i])

\* the last index of character c in s, 0 when there is none
LastIndexOf(s, c) ==
    IF \E i \in 1..Len(s) : s[i] = c
    THEN CHOOSE i \in 1..Len(s) : s[i] = c /\ \A j \in (i + 1)..Len(s) : s[j] # c
    ELSE 0

\* the first index of a character of set C in s, Len(s) + 1 when there is none
FirstIndexIn(s, C) ==
    IF \E i \in 1..Len(s) : s[i] \in C
    THEN CHOOSE i \in 1..Len(s) : s[i] \in C /\ \A j \in 1..(i - 1) : s[j] \notin C
    ELSE Len(s) + 1

\* n copies of character c
Repeat(c, n) == [i \in 1..n |-> c]

----------------------------------------------------------------------------
(* Program constants *)

IMG_BASE == <<"h", "t", "t", "p", "s", ":", "/", "/", "i", "m", "g", ".", "i", "n",
              "l", "i", "n", "e", "r", ".", "a", "i">>
API_BASE == <<"h", "t", "t", "p", "s", ":", "/", "/", "a", "p", "i", ".", "i", "n",
              "l", "i", "n", "e", "r", ".", "a", "i">>
IMG_HOST_SUFFIX == <<"i", "m", "g", ".", "i", "n", "l", "i", "n", "e", "r", ".", "a", "i">>
REQUEST_JSON == <<"/", "c", "o", "n", "t", "e", "n", "t", "/", "r", "e", "q", "u", "e",
                  "s", "t", "-", "j", "s", "o", "n", "/">>

ACCOUNT_PROJECTS == <<"/", "a", "c", "c", "o", "u", "n", "t", "/", "p", "r", "o", "j", "e",
                      "c", "t", "s">>
CONTENT_UPLOAD == <<"/", "c", "o", "n", "t", "e", "n", "t", "/", "u", "p", "l", "o", "a", "d">>

PNG == <<"p", "n", "g">>
JPG == <<"j", "p", "g">>
JPEG == <<"j", "p", "e", "g">>
WEBP == <<"w", "e", "b", "p">>
GIF == <<"g", "i", "f">>

MinDim == 100
MaxDim == 4096
SliceLen == 100
maxAttempts == 60
DelaySeconds == 3
DefaultDim == 1024
CreateDefaultWidth == 800
CreateDefaultHeight == 600

\* z.number().min(100).max(4096)
DimOk(n) == n >= MinDim /\ n <= MaxDim

\* z.enum(["png", "jpg"])
FormatOk(f) == f \in {PNG, JPG}

----------------------------------------------------------------------------
(* Canonicalization, as each handler writes it *)

\* generate_image_url: const sanitized
UrlSanitized(description) ==
    Slice0(StripEdgeHyphens(CollapseHyphens(ReplaceNonSlug(ToLowerCase(description)))),
           SliceLen)

\* generate_image_url: const sanitizedEdit (no strip of the edges)
UrlSanitizedEdit(edit) == CollapseHyphens(ReplaceNonSlug(ToLowerCase(edit)))

\* generate_image: const sanitized
GenSanitized(description) ==
    Slice0(StripEdgeHyphens(CollapseHyphens(ReplaceNonSlug(ToLowerCase(description)))),
           SliceLen)

\* create_image: const sanitized
CreateSanitizedNoStrip(description) ==
    Slice0(CollapseHyphens(ReplaceNonSlug(ToLowerCase(description))), SliceLen)
CreateSanitized(description) ==
    Slice0(StripEdgeHyphens(CollapseHyphens(ReplaceNonSlug(ToLowerCase(description)))),
           SliceLen)

\* edit_image: const sanitizedPrompt
EditSanitizedPrompt(prompt) ==
    StripEdgeHyphens(CollapseHyphens(ReplaceNonSlug(ToLowerCase(prompt))))

\* edit_image: let sanitizedEdit, before the dimension suffix
EditSanitizedEdit(editInstruction) ==
    StripEdgeHyphens(CollapseHyphens(ReplaceNonSlug(ToLowerCase(editInstruction))))

\* `${project}/${sanitized}_${width}x${height}.${format}`
PathTemplate(project, sanitized, width, height, format) ==
    project \o <<"/">> \o sanitized \o <<"_">> \o NumToString(width) \o <<"x">>
        \o NumToString(height) \o <<".">> \o format

\* generate_image_url: let url, as built at lines 92-100
UrlToolUrl(project, description, width, height, format, edit) ==
    LET base == IMG_BASE \o <<"/">> \o project \o <<"/">> \o UrlSanitized(description)
                    \o <<"_">> \o NumToString(width) \o <<"x">> \o NumToString(height)
        withEdit == IF edit # <<>> THEN base \o <<"/">> \o UrlSanitizedEdit(edit) ELSE base
    IN  withEdit \o <<".">> \o format

\* generate_image: const pathPart
GenPathPart(project, description, width, height, format) ==
    PathTemplate(project, GenSanitized(description), width, height, format)

\* create_image: const pathPart
CreatePathPart(project, description, width, height, format) ==
    PathTemplate(project, CreateSanitized(description), width, height, format)

\* the <img> fragment: src, alt, width and height of the template literal
Html(src, altText, width, height) ==
    [src |-> src, alt |-> HyphensToSpaces(altText), width |-> width, height |-> height,
     loading |-> "lazy"]

----------------------------------------------------------------------------
(* new URL(s): the fields the handler reads.  A scheme and "://" come      *)
(* first, the authority runs to the first "/", "?" or "#", the host is the *)
(* authority without userinfo and port, lowercased; the pathname runs to   *)
(* the first "?" or "#", the search to the first "#".  Dot segments and    *)
(* percent-encoding are not modelled: no input of the model holds them.    *)

SchemeSep == <<":", "/", "/">>

\* the index at which "://" starts in s, 0 when there is none
SchemeEnd(s) ==
    IF \E i \in 1..(Len(s) - 2) : SubSeq(s, i, i + 2) = SchemeSep
    THEN CHOOSE i \in 1..(Len(s) - 2) :
            /\ SubSeq(s, i, i + 2) = SchemeSep
            /\ \A j \in 1..(i - 1) : SubSeq(s, j, j + 2) # SchemeSep
    ELSE 0

IsLetter(c) == c \in Range(LowerChars) \cup Range(UpperChars)

\* the authority: what follows "://" up to the first "/", "?" or "#"
UrlAuthority(rest) == SubSeq(rest, 1, FirstIndexIn(rest, {"/", "?", "#"}) - 1)

\* what follows the authority
UrlTail(rest) == SubSeq(rest, FirstIndexIn(rest, {"/", "?", "#"}), Len(rest))

\* the authority without its userinfo
UrlHostPort(authority) ==
    SubSeq(authority, LastIndexOf(authority, "@") + 1, Len(authority))

\* URL.hostname: the host without the port, lowercased
UrlHost(hostPort) == ToLowerCase(SubSeq(hostPort, 1, FirstIndexIn(hostPort, {":"}) - 1))

\* the path: up to the first "?" or "#"
UrlRawPath(tail) == SubSeq(tail, 1, FirstIndexIn(tail, {"?", "#"}) - 1)

\* the query: from the first "?" up to the first "#"
UrlRawQuery(tail) ==
    IF FirstIndexIn(tail, {"?"}) < FirstIndexIn(tail, {"#"})
    THEN SubSeq(tail, FirstIndexIn(tail, {"?"}), FirstIndexIn(tail, {"#"}) - 1)
    ELSE <<>>

\* the fields of a URL object
UrlRecord(schemeOk, host, rawPath, rawQuery) ==
    [ok |-> schemeOk /\ Len(host) > 0,
     hostname |-> host,
     pathname |-> IF rawPath = <<>> THEN <<"/">> ELSE rawPath,
     search |-> IF Len(rawQuery) = 1 THEN <<>> ELSE rawQuery]

UrlAfterScheme(schemeOk, rest) ==
    UrlRecord(schemeOk, UrlHost(UrlHostPort(UrlAuthority(rest))),
              UrlRawPath(UrlTail(rest)), UrlRawQuery(UrlTail(rest)))

UrlAtScheme(s, se) ==
    UrlAfterScheme(se > 1 /\ \A i \in 1..(se - 1) : IsLetter(s[i]),
                   IF se > 0 THEN SubSeq(s, se + 3, Len(s)) ELSE <<>>)

\* new URL(s)
ParseURL(s) == UrlAtScheme(s, SchemeEnd(s))

\* !sourceUrlObj.hostname.endsWith("img.inliner.ai") is false
HostAccepted(hostname) == EndsWith(hostname, IMG_HOST_SUFFIX)

\* (\d+)x(\d+) against what follows the last "_" of the stem
SourceMatchDims(ok, desc, dims, fmt) ==
    [matched |-> /\ ok
                 /\ IsDigits(SubSeq(dims, 1, FirstIndexIn(dims, {"x"}) - 1))
                 /\ IsDigits(SubSeq(dims, FirstIndexIn(dims, {"x"}) + 1, Len(dims))),
     desc |-> desc,
     w |-> SubSeq(dims, 1, FirstIndexIn(dims, {"x"}) - 1),
     h |-> SubSeq(dims, FirstIndexIn(dims, {"x"}) + 1, Len(dims)),
     fmt |-> fmt]

\* ^(.+)_ against the stem: the description ends at the last "_"
SourceMatchStem(ok, stem, us, fmt) ==
    SourceMatchDims(ok /\ us > 1, SubSeq(stem, 1, us - 1),
                    SubSeq(stem, us + 1, Len(stem)), fmt)

\* \.(png|jpg)$ against the name: the format follows the last "."
SourceMatchAt(name, dot) ==
    SourceMatchStem(dot > 0 /\ SubSeq(name, dot + 1, Len(name)) \in {PNG, JPG},
                    SubSeq(name, 1, dot - 1),
                    LastIndexOf(SubSeq(name, 1, dot - 1), "_"),
                    SubSeq(name, dot + 1, Len(name)))

\* sourceFileName.match(/^(.+)_(\d+)x(\d+)\.(png|jpg)$/)
SourceMatch(name) == SourceMatchAt(name, LastIndexOf(name, "."))

FormatMatchAt(name, dot) ==
    [matched |-> /\ dot > 1
                 /\ ToLowerCase(SubSeq(name, dot + 1, Len(name)))
                        \in {PNG, JPG, JPEG, WEBP, GIF},
     base |-> SubSeq(name, 1, dot - 1),
     ext |-> SubSeq(name, dot + 1, Len(name))]

\* sourceFileName.match(/^(.+)\.(png|jpg|jpeg|webp|gif)$/i)
FormatMatch(name) == FormatMatchAt(name, LastIndexOf(name, "."))

\* formatMatch[2].toLowerCase() === 'jpeg' ? 'jpg' : formatMatch[2].toLowerCase()
NormalizeExtLower(ext) == ToLowerCase(ext)
NormalizeExt(ext) == IF ToLowerCase(ext) = JPEG THEN JPG ELSE ToLowerCase(ext)

\* the last element of s.split("/")
LastSegment(s) == SubSeq(s, LastIndexOf(s, "/") + 1, Len(s))

\* .replace(/^\//, "")
StripLeadingSlash(s) == IF Len(s) > 0 /\ s[1] = "/" THEN SubSeq(s, 2, Len(s)) ELSE s

\* lines 586-617: the host check and the two filename patterns
ResolveMatched(u, sourcePathFromUrl, sm, fm) ==
    [error |-> IF ~u.ok THEN "invalid_url"
               ELSE IF ~HostAccepted(u.hostname) THEN "invalid_url"
               ELSE IF ~sm.matched /\ ~fm.matched THEN "invalid_path_format"
               ELSE "none",
     hostname |-> u.hostname,
     sourcePathFromUrl |-> sourcePathFromUrl,
     sourceQuery |-> u.search,
     hasDims |-> sm.matched,
     baseDescription |-> IF sm.matched THEN sm.desc ELSE fm.base,
     sourceWidth |-> IF sm.matched THEN ParseInt(sm.w) ELSE 0,
     sourceHeight |-> IF sm.matched THEN ParseInt(sm.h) ELSE 0,
     sourceFormat |-> IF sm.matched THEN sm.fmt ELSE NormalizeExt(fm.ext)]

\* lines 590-596: the path of the URL and its last segment
ResolvePath(u, sourcePathFromUrl) ==
    ResolveMatched(u, sourcePathFromUrl, SourceMatch(LastSegment(sourcePathFromUrl)),
                   FormatMatch(LastSegment(sourcePathFromUrl)))

ResolveParsed(u) == ResolvePath(u, StripLeadingSlash(u.pathname))

\* edit_image, lines 578-617: the source URL resolved to its path, query and,
\* where the filename holds them, its description, dimensions and format
ResolveSource(resolvedSourceUrl) == ResolveParsed(ParseURL(resolvedSourceUrl))

----------------------------------------------------------------------------
(* Decoding of the media payload *)

B64Chars == <<"A", "B", "C", "D", "E", "F", "G", "H", "I", "J", "K", "L", "M", "N", "O",
              "P", "Q", "R", "S", "T", "U", "V", "W", "X", "Y", "Z", "a", "b", "c", "d",
              "e", "f", "g", "h", "i", "j", "k", "l", "m", "n", "o", "p", "q", "r", "s",
              "t", "u", "v", "w", "x", "y", "z", "0", "1", "2", "3", "4", "5", "6", "7",
              "8", "9", "+", "/">>

B64Value(c) == (CHOOSE i \in 1..Len(B64Chars) : B64Chars[i] = c) - 1

\* the bytes of a run of base64 digits, four digits to three bytes
RECURSIVE B64Bytes(_)
B64Bytes(s) ==
    IF Len(s) >= 4 THEN
        LET v == B64Value(s[1]) * 262144 + B64Value(s[2]) * 4096
                 + B64Value(s[3]) * 64 + B64Value(s[4])
        IN  <<v \div 65536, (v \div 256) % 256, v % 256>> \o B64Bytes(SubSeq(s, 5, Len(s)))
    ELSE IF Len(s) = 3 THEN
        LET v == B64Value(s[1]) * 4096 + B64Value(s[2]) * 64 + B64Value(s[3])
        IN  <<v \div 1024, (v \div 4) % 256>>
    ELSE IF Len(s) = 2 THEN
        <<(B64Value(s[1]) * 64 + B64Value(s[2])) \div 16>>
    ELSE <<>>

\* Buffer.from(s, "base64"): characters outside the alphabet are skipped and
\* the first "=" ends the data
Base64Decode(s) ==
    LET data == SubSeq(s, 1, FirstIndexIn(s, {"="}) - 1)
    IN  B64Bytes(SelectSeq(data, LAMBDA c : c \in Range(B64Chars)))

\* dataUrl.split(",")[k]: undefined when the string has fewer than k+1 parts
SplitCommaAt(s, k) ==
    LET commas == {i \in 1..Len(s) : s[i] = ","}
        nth(n) == CHOOSE i \in commas : Cardinality({j \in commas : j < i}) = n - 1
        from == IF k = 0 THEN 1 ELSE nth(k) + 1
        to == IF Cardinality(commas) > k THEN nth(k + 1) - 1 ELSE Len(s)
    IN  [defined |-> Cardinality(commas) >= k,
         value |-> IF Cardinality(commas) >= k THEN SubSeq(s, from, to) ELSE <<>>]

\* dataUrl.split(",")[1]
Base64PartWhole(dataUrl) == SplitCommaAt(dataUrl, 0)
Base64Part(dataUrl) == SplitCommaAt(dataUrl, 1)

DATA_SCHEME == <<"d", "a", "t", "a", ":">>

NullBuffer == [null |-> TRUE, bytes |-> <<>>]
BufferOf(b) == [null |-> FALSE, bytes |-> b]

----------------------------------------------------------------------------
(* Paths of the local file system: path.extname, path.basename *)

\* path.extname(p)
ExtName(p) ==
    LET base == LastSegment(p)
        dot == LastIndexOf(base, ".")
    IN  IF dot > 1 THEN SubSeq(base, dot, Len(base)) ELSE <<>>

\* path.basename(p, ext)
BaseName(p, ext) ==
    LET base == LastSegment(p)
    IN  IF Len(ext) > 0 /\ Len(base) > Len(ext) /\ EndsWith(base, ext)
        THEN SubSeq(base, 1, Len(base) - Len(ext)) ELSE base

\* .replace(".", ""): the first "." is removed
RemoveFirstDot(s) ==
    LET i == FirstIndexIn(s, {"."})
    IN  SubSeq(s, 1, i - 1) \o SubSeq(s, i + 1, Len(s))

\* const allowedExtensions
AllowedExtensions == {PNG, JPG, JPEG, WEBP, GIF}

----------------------------------------------------------------------------
(* State of one invocation *)

NoArgs ==
    [project |-> <<>>, description |-> <<>>, width |-> 0, height |-> 0, format |-> <<>>,
     edit |-> <<>>, sourceUrl |-> <<>>, sourcePath |-> <<>>, uploadPrompt |-> <<>>,
     editInstruction |-> <<>>, outputPath |-> <<>>]

NoOrigin == [known |-> FALSE, width |-> 0, height |-> 0, format |-> <<>>, slug |-> <<>>]

NoLoc ==
    [resolved |-> FALSE, resolvedProject |-> <<>>, resolvedSourceUrl |-> <<>>,
     sanitizedPrompt |-> <<>>, ext |-> <<>>, finalExt |-> <<>>,
     hostname |-> <<>>, sourcePathFromUrl |-> <<>>, sourceQuery |-> <<>>,
     baseDescription |-> <<>>, sourceWidth |-> 0, sourceHeight |-> 0,
     sourceFormat |-> <<>>, outputWidth |-> 0, outputHeight |-> 0,
     outputFormat |-> <<>>, sanitizedEdit |-> <<>>, editPath |-> <<>>]

NoHtml == [src |-> <<>>, alt |-> <<>>, width |-> 0, height |-> 0, loading |-> "lazy"]

NoResult ==
    [kind |-> "none", error |-> "none", seconds |-> 0, url |-> <<>>, html |-> NoHtml,
     saved |-> FALSE, size |-> 0]

\* throw new Error(...): the error that unwinds the handler
Thrown(error, seconds, u) ==
    [NoResult EXCEPT !.kind = "error", !.error = error, !.seconds = seconds, !.url = u]

\* the value a handler returns
Returned(u, html, saved, size) ==
    [NoResult EXCEPT !.kind = "ok", !.url = u, !.html = html, !.saved = saved,
                     !.size = size]

\* the value a listing handler returns from its catch block: isError: true
ReturnedError(error) == [NoResult EXCEPT !.kind = "is_error", !.error = error]

\* no request is awaiting its answer
NoRequest == [kind |-> "none", url |-> <<>>, auth |-> FALSE]

\* fetch(u, { headers: { Authorization: `Bearer ${apiKey}` } }), or fetch(u)
RequestWithoutHeader(kind, u, auth) == [kind |-> kind, url |-> u, auth |-> FALSE]
Request(kind, u, auth) == [kind |-> kind, url |-> u, auth |-> auth]

NoNet ==
    [statusRequests |-> 0, uploads |-> 0, apiCalls |-> 0, delays |-> 0,
     inflight |-> NoRequest]

\* the answer to the HTTP call of a listing operation
NoApiResponse == [threw |-> FALSE, ok |-> TRUE, parses |-> TRUE, success |-> TRUE]

\* the answer to the upload, before there is one
NoUploadResponse ==
    [threw |-> FALSE, ok |-> FALSE, parses |-> FALSE, success |-> FALSE, prompt |-> <<>>]

NoAccount == [threw |-> FALSE, projects |-> <<>>]

NoObs ==
    [failedSeen |-> FALSE, only202 |-> TRUE, decodableAt |-> 0, readyStatus |-> 0,
     payload |-> <<>>, envDefaultProject |-> <<>>, account |-> NoAccount,
     api |-> NoApiResponse, lastAttempt |-> "none", upload |-> NoUploadResponse]

NoFs == [reads |-> 0, mkdirs |-> 0, writes |-> 0, written |-> <<>>]

PollTools == {"generate_image", "create_image", "edit_image"}

Init ==
    /\ tool = "none"
    /\ pc = "idle"
    /\ args = NoArgs
    /\ origin = NoOrigin
    /\ loc = NoLoc
    /\ url = <<>>
    /\ pathPart = <<>>
    /\ attempt = 0
    /\ status = "PENDING"
    /\ imageBuffer = NullBuffer
    /\ net = NoNet
    /\ obs = NoObs
    /\ fs = NoFs
    /\ result = NoResult

\* const pollUrl
PollUrl == API_BASE \o REQUEST_JSON \o pathPart

\* the schema rejects the arguments before the handler runs
Rejected(a) ==
    /\ args' = a
    /\ pc' = "error"
    /\ result' = Thrown("validation", 0, <<>>)
    /\ UNCHANGED <<origin, loc, url, pathPart, attempt, status, imageBuffer, net, obs, fs>>

\* a throw that unwinds the handler from an await
Throw(error) ==
    /\ pc' = "error"
    /\ result' = Thrown(error, 0, <<>>)

\* the locals of the poll loop, lines 159-162, and the first evaluation of its guard
EnterPoll(u, p) ==
    /\ url' = u
    /\ pathPart' = p
    /\ attempt' = 0
    /\ status' = "PENDING"
    /\ imageBuffer' = NullBuffer
    /\ pc' = "loop"
    /\ result' = NoResult

----------------------------------------------------------------------------
(* generate_image_url, lines 84-112 *)

GenerateImageUrl(Projects, Descriptions, Dims, Formats, Edits) ==
    /\ pc = "idle"
    /\ tool' = "generate_image_url"
    /\ \E p \in Projects, d \in Descriptions, wh \in Dims, f \in Formats, e \in Edits :
        LET a == [NoArgs EXCEPT !.project = p, !.description = d, !.width = wh[1],
                                !.height = wh[2], !.format = IF f = <<>> THEN PNG ELSE f,
                                !.edit = e]
            u == UrlToolUrl(p, d, wh[1], wh[2], a.format, e)
        IN  IF ~(DimOk(wh[1]) /\ DimOk(wh[2]) /\ FormatOk(a.format))
            THEN Rejected(a)
            ELSE /\ args' = a
                 /\ url' = u
                 /\ result' = Returned(u, Html(u, d, wh[1], wh[2]), FALSE, 0)
                 /\ pc' = "done"
                 /\ UNCHANGED <<origin, loc, pathPart, attempt, status, imageBuffer,
                                net, obs, fs>>

----------------------------------------------------------------------------
(* generate_image, lines 146-162: the path and the poll URL *)

GenerateImageStart(Projects, Descriptions, Dims, Formats, Outs) ==
    /\ pc = "idle"
    /\ tool' = "generate_image"
    /\ \E p \in Projects, d \in Descriptions, wh \in Dims, f \in Formats, o \in Outs :
        LET a == [NoArgs EXCEPT !.project = p, !.description = d, !.width = wh[1],
                                !.height = wh[2], !.format = IF f = <<>> THEN PNG ELSE f,
                                !.outputPath = o]
            part == GenPathPart(p, d, a.width, a.height, a.format)
        IN  IF ~(DimOk(a.width) /\ DimOk(a.height) /\ FormatOk(a.format))
            THEN Rejected(a)
            ELSE /\ args' = a
                 /\ EnterPoll(IMG_BASE \o <<"/">> \o part, part)
                 /\ UNCHANGED <<origin, loc, net, obs, fs>>

----------------------------------------------------------------------------
(* create_image, lines 292-324: the project, the path and the poll URL *)

CreateEnterPoll(a, project) ==
    LET part == CreatePathPart(project, a.description, a.width, a.height, a.format)
    IN  /\ loc' = [NoLoc EXCEPT !.resolvedProject = project]
        /\ EnterPoll(IMG_BASE \o <<"/">> \o part, part)

\* "team"
ENV_PROJECT == <<"t", "e", "a", "m">>

\* process.env.INLINER_DEFAULT_PROJECT, unset or set; no line of the source
\* reads it
EnvDefaultProjects == {<<>>, ENV_PROJECT}

CreateImageStart(Projects, Descriptions, Dims, Formats, Outs) ==
    /\ pc = "idle"
    /\ tool' = "create_image"
    /\ \E p \in Projects, d \in Descriptions, wh \in Dims, f \in Formats, o \in Outs :
        LET a == [NoArgs EXCEPT !.project = p, !.description = d,
                                !.width = IF wh[1] = 0 THEN CreateDefaultWidth ELSE wh[1],
                                !.height = IF wh[2] = 0 THEN CreateDefaultHeight ELSE wh[2],
                                !.format = IF f = <<>> THEN PNG ELSE f,
                                !.outputPath = o]
        IN  IF ~(DimOk(a.width) /\ DimOk(a.height) /\ FormatOk(a.format))
            THEN Rejected(a)
            ELSE /\ args' = a
                 /\ IF p = <<>>
                    THEN /\ pc' = "await_projects"
                         /\ net' = [net EXCEPT
                                        !.apiCalls = @ + 1,
                                        !.inflight = Request("api", API_BASE \o ACCOUNT_PROJECTS,
                                                             TRUE)]
                         /\ \E e \in EnvDefaultProjects :
                                obs' = [obs EXCEPT !.envDefaultProject = e]
                         /\ UNCHANGED <<loc, url, pathPart, attempt, status, imageBuffer,
                                        result>>
                    ELSE /\ CreateEnterPoll(a, p)
                         /\ UNCHANGED <<net, obs>>
                 /\ UNCHANGED <<origin, fs>>

DEFAULT_PROJECT == <<"d", "e", "f", "a", "u", "l", "t">>

\* lines 296-305: the answer of GET account/projects, or apiFetch's throw
ResolvedProject(resp) ==
    IF resp.threw THEN DEFAULT_PROJECT
    ELSE IF Len(resp.projects) > 0 THEN resp.projects[1].project
    ELSE DEFAULT_PROJECT

ProjectsRecv(Responses) ==
    /\ pc = "await_projects"
    /\ \E resp \in Responses :
        /\ CreateEnterPoll(args, ResolvedProject(resp))
        /\ obs' = [obs EXCEPT !.account = resp]
    /\ net' = [net EXCEPT !.inflight = NoRequest]
    /\ UNCHANGED <<tool, args, origin, fs>>

----------------------------------------------------------------------------
(* edit_image, lines 464-668: upload, source resolver, edit path *)

DefaultDims == [width |-> DefaultDim, height |-> DefaultDim]

\* lines 657-662: the locals once the edit slug is known
EditLocals(r, sourceWidth, sourceHeight, outputWidth, outputHeight, outputFormat, sanitizedEdit) ==
    [NoLoc EXCEPT !.resolved = TRUE,
                  !.hostname = r.hostname,
                  !.sourcePathFromUrl = r.sourcePathFromUrl,
                  !.sourceQuery = r.sourceQuery,
                  !.baseDescription = r.baseDescription,
                  !.sourceWidth = sourceWidth,
                  !.sourceHeight = sourceHeight,
                  !.sourceFormat = r.sourceFormat,
                  !.outputWidth = outputWidth,
                  !.outputHeight = outputHeight,
                  !.outputFormat = outputFormat,
                  !.sanitizedEdit = sanitizedEdit,
                  !.editPath = r.sourcePathFromUrl \o <<"/">> \o sanitizedEdit \o <<".">>
                                   \o outputFormat]

\* lines 645-655: the edit slug, with the output dimensions appended when a
\* width or a height was given
EditSlugOfArgs(a, outputWidth, outputHeight) ==
    IF a.width # 0 \/ a.height # 0
    THEN EditSanitizedEdit(a.editInstruction) \o <<"-">> \o NumToString(a.width)
             \o <<"x">> \o NumToString(a.height)
    ELSE EditSanitizedEdit(a.editInstruction)
EditSlug(a, outputWidth, outputHeight) ==
    IF a.width # 0 \/ a.height # 0
    THEN EditSanitizedEdit(a.editInstruction) \o <<"-">> \o NumToString(outputWidth)
             \o <<"x">> \o NumToString(outputHeight)
    ELSE EditSanitizedEdit(a.editInstruction)

EditOutputs(r, sourceWidth, sourceHeight, a, outputWidth, outputHeight, outputFormat) ==
    EditLocals(r, sourceWidth, sourceHeight, outputWidth, outputHeight, outputFormat,
               EditSlug(a, outputWidth, outputHeight))

\* edit_image, lines 640-662: output format and dimensions (format ||
\* sourceFormat, width || sourceWidth, height || sourceHeight), edit slug and
\* edit path, from the resolved source and its dimensions
BuildEdit(r, sourceWidth, sourceHeight, a) ==
    EditOutputs(r, sourceWidth, sourceHeight, a,
                IF a.width # 0 THEN a.width ELSE sourceWidth,
                IF a.height # 0 THEN a.height ELSE sourceHeight,
                IF a.format # <<>> THEN a.format ELSE r.sourceFormat)

\* lines 657-668: url, pollUrl and the locals of the poll loop
EnterEdit(e, resolvedSourceUrl, l) ==
    /\ loc' = [e EXCEPT !.resolvedSourceUrl = resolvedSourceUrl,
                        !.sanitizedPrompt = l.sanitizedPrompt,
                        !.ext = l.ext, !.finalExt = l.finalExt]
    /\ EnterPoll(IMG_BASE \o <<"/">> \o e.editPath \o e.sourceQuery,
                 e.editPath \o e.sourceQuery)

ContinueResolved(a, resolvedSourceUrl, l, r) ==
    IF r.error # "none"
    THEN /\ Throw(r.error)
         /\ loc' = [l EXCEPT !.resolvedSourceUrl = resolvedSourceUrl,
                             !.hostname = r.hostname]
         /\ UNCHANGED <<url, pathPart, attempt, status, imageBuffer>>
    ELSE IF r.hasDims
    THEN EnterEdit(BuildEdit(r, r.sourceWidth, r.sourceHeight, a), resolvedSourceUrl, l)
    ELSE IF a.sourcePath # <<>>
    THEN /\ pc' = "sharp"
         /\ loc' = [l EXCEPT !.resolvedSourceUrl = resolvedSourceUrl]
         /\ UNCHANGED <<url, pathPart, attempt, status, imageBuffer, result>>
    ELSE EnterEdit(BuildEdit(r, DefaultDims.width, DefaultDims.height, a),
                   resolvedSourceUrl, l)

\* lines 578-662 up to the first await: the resolver's throw, the wait for the
\* file's metadata, or the poll loop
ContinueResolve(a, resolvedSourceUrl, l) ==
    ContinueResolved(a, resolvedSourceUrl, l, ResolveSource(resolvedSourceUrl))

EditImageCall(a, o) ==
    /\ pc = "idle"
    /\ tool' = "edit_image"
    /\ origin' = o
    /\ IF ~((a.width = 0 \/ DimOk(a.width)) /\ (a.height = 0 \/ DimOk(a.height))
            /\ (a.format = <<>> \/ FormatOk(a.format)))
       THEN /\ args' = a
            /\ pc' = "error"
            /\ result' = Thrown("validation", 0, <<>>)
            /\ UNCHANGED <<loc, url, pathPart, attempt, status, imageBuffer>>
       ELSE /\ args' = a
            /\ IF a.sourceUrl # <<>> THEN ContinueResolve(a, a.sourceUrl, NoLoc)
               ELSE IF a.sourcePath = <<>>
               THEN /\ Throw("source_required")
                    /\ UNCHANGED <<loc, url, pathPart, attempt, status, imageBuffer>>
               ELSE IF a.project = <<>>
               THEN /\ Throw("project_required")
                    /\ UNCHANGED <<loc, url, pathPart, attempt, status, imageBuffer>>
               ELSE /\ pc' = "read_file"
                    /\ UNCHANGED <<loc, url, pathPart, attempt, status, imageBuffer,
                                   result>>
    /\ UNCHANGED <<net, obs, fs>>

\* edit_image called with arguments of the client's own choice
EditImageStart(Urls, Paths, Projects, Prompts, Edits, Dims, Formats, Outs) ==
    /\ pc = "idle"
    /\ \E su \in Urls, sp \in Paths, p \in Projects, up \in Prompts,
          e \in Edits, wh \in Dims, f \in Formats, o \in Outs :
        EditImageCall([NoArgs EXCEPT !.sourceUrl = su, !.sourcePath = sp, !.project = p,
                                     !.uploadPrompt = up, !.editInstruction = e,
                                     !.width = wh[1], !.height = wh[2], !.format = f,
                                     !.outputPath = o],
                      NoOrigin)

\* edit_image called with the URL that generate_image built for an ImageSpec
EditGenerated(Projects, Descriptions, GenDims, GenFormats, Edits, Dims, Formats) ==
    /\ pc = "idle"
    /\ \E p \in Projects, d \in Descriptions, gwh \in GenDims, gf \in GenFormats,
          e \in Edits, wh \in Dims, f \in Formats :
        /\ DimOk(gwh[1]) /\ DimOk(gwh[2]) /\ FormatOk(gf)
        /\ EditImageCall([NoArgs EXCEPT
                              !.sourceUrl = IMG_BASE \o <<"/">>
                                            \o GenPathPart(p, d, gwh[1], gwh[2], gf),
                              !.editInstruction = e,
                              !.width = wh[1], !.height = wh[2], !.format = f],
                         [known |-> TRUE, width |-> gwh[1], height |-> gwh[2],
                          format |-> gf, slug |-> GenSanitized(d)])

\* lines 493-557: the extension and the upload slug are validated, and the
\* multipart upload is posted
ValidateUploadAnyType(ext, sanitizedPrompt) ==
    IF sanitizedPrompt = <<>>
    THEN Throw("upload_prompt_empty") /\ UNCHANGED <<loc, net>>
    ELSE /\ pc' = "await_upload"
         /\ loc' = [loc EXCEPT !.sanitizedPrompt = sanitizedPrompt,
                               !.ext = ext,
                               !.finalExt = IF ext = JPEG THEN JPG ELSE ext]
         /\ net' = [net EXCEPT !.uploads = @ + 1,
                                !.inflight = Request("upload", API_BASE \o CONTENT_UPLOAD,
                                                     TRUE)]
         /\ result' = result
ValidateUpload(ext, sanitizedPrompt) ==
    IF ext \notin AllowedExtensions
    THEN Throw("invalid_file_type") /\ UNCHANGED <<loc, net>>
    ELSE IF sanitizedPrompt = <<>>
    THEN Throw("upload_prompt_empty") /\ UNCHANGED <<loc, net>>
    ELSE /\ pc' = "await_upload"
         /\ loc' = [loc EXCEPT !.sanitizedPrompt = sanitizedPrompt,
                               !.ext = ext,
                               !.finalExt = IF ext = JPEG THEN JPG ELSE ext]
         /\ net' = [net EXCEPT !.uploads = @ + 1,
                                !.inflight = Request("upload", API_BASE \o CONTENT_UPLOAD,
                                                     TRUE)]
         /\ result' = result

\* lines 490-503: the file is read; its extension and default prompt
ReadFile ==
    /\ pc = "read_file"
    /\ fs' = [fs EXCEPT !.reads = @ + 1]
    /\ \E readOk \in BOOLEAN :
        IF ~readOk THEN Throw("read_failed") /\ UNCHANGED <<loc, net>>
        ELSE ValidateUpload(
                 RemoveFirstDot(ToLowerCase(ExtName(args.sourcePath))),
                 EditSanitizedPrompt(
                     IF args.uploadPrompt # <<>> THEN args.uploadPrompt
                     ELSE BaseName(args.sourcePath, ExtName(args.sourcePath))))
    /\ UNCHANGED <<tool, args, origin, url, pathPart, attempt, status, imageBuffer, obs>>

\* the content.prompt values the upload endpoint may answer with
UploadedPrompts ==
    {<<>>} \cup {args.project \o <<"/">> \o loc.sanitizedPrompt \o <<".">> \o e :
                    e \in {loc.ext, loc.finalExt}}

UploadResponses ==
    {[threw |-> TRUE, ok |-> FALSE, parses |-> FALSE, success |-> FALSE, prompt |-> <<>>]}
    \cup {[threw |-> FALSE, ok |-> k, parses |-> j, success |-> j /\ s,
           prompt |-> IF j THEN q ELSE <<>>] :
            k \in BOOLEAN, j \in BOOLEAN, s \in BOOLEAN, q \in UploadedPrompts}

\* lines 549-573: the error the upload's answer makes the handler throw, or
\* "none": the fetch threw, !uploadRes.ok, uploadRes.json() threw,
\* !uploadData?.success, no content.prompt
UploadErrorNoFlag(resp) ==
    IF resp.threw THEN "upload_fetch"
    ELSE IF ~resp.ok THEN "upload_failed_status"
    ELSE IF ~resp.parses THEN "upload_body"
    ELSE IF resp.prompt = <<>> THEN "upload_no_prompt"
    ELSE "none"
UploadError(resp) ==
    IF resp.threw THEN "upload_fetch"
    ELSE IF ~resp.ok THEN "upload_failed_status"
    ELSE IF ~resp.parses THEN "upload_body"
    ELSE IF ~resp.success THEN "upload_failed"
    ELSE IF resp.prompt = <<>> THEN "upload_no_prompt"
    ELSE "none"

\* lines 559-576: the upload's answer
UploadRecv ==
    /\ pc = "await_upload"
    /\ \E resp \in UploadResponses :
        /\ obs' = [obs EXCEPT !.upload = resp]
        /\ IF UploadError(resp) # "none"
           THEN /\ Throw(UploadError(resp))
                /\ UNCHANGED <<loc, url, pathPart, attempt, status, imageBuffer>>
           ELSE ContinueResolve(args, IMG_BASE \o <<"/">> \o resp.prompt, loc)
    /\ net' = [net EXCEPT !.inflight = NoRequest]
    /\ UNCHANGED <<tool, args, origin, fs>>

\* lines 621-633: the uploaded file's own dimensions, or the default
SharpDims(meta) ==
    IF meta.threw THEN DefaultDims
    ELSE [width |-> IF meta.width # 0 THEN meta.width ELSE DefaultDim,
          height |-> IF meta.height # 0 THEN meta.height ELSE DefaultDim]

Sharp(Metadata) ==
    /\ pc = "sharp"
    /\ fs' = [fs EXCEPT !.reads = @ + 1]
    /\ \E meta \in Metadata :
        EnterEdit(BuildEdit(ResolveSource(loc.resolvedSourceUrl), SharpDims(meta).width,
                            SharpDims(meta).height, args),
                  loc.resolvedSourceUrl, loc)
    /\ UNCHANGED <<tool, args, origin, net, obs>>

----------------------------------------------------------------------------
(* The listing operations, lines 765-1001: one HTTP call inside try/catch   *)

ListingTools ==
    {"get_projects", "create_project", "get_project_details", "get_usage",
     "get_current_plan", "list_images"}

\* "/account/plan-usage"
PLAN_USAGE == <<"/", "a", "c", "c", "o", "u", "n", "t", "/", "p", "l", "a", "n", "-", "u",
                "s", "a", "g", "e">>

\* "/account/current-plan"
CURRENT_PLAN == <<"/", "a", "c", "c", "o", "u", "n", "t", "/", "c", "u", "r", "r", "e", "n",
                  "t", "-", "p", "l", "a", "n">>

\* "/content/images?limit=20"
CONTENT_IMAGES == <<"/", "c", "o", "n", "t", "e", "n", "t", "/", "i", "m", "a", "g", "e",
                    "s", "?", "l", "i", "m", "i", "t", "=", "2", "0">>

\* "&projectId="
PROJECT_ID_PARAM == <<"&", "p", "r", "o", "j", "e", "c", "t", "I", "d", "=">>

\* the URL of the call, after API_BASE
ListingPath(t, projectId) ==
    CASE t = "get_projects" -> ACCOUNT_PROJECTS
      [] t = "create_project" -> ACCOUNT_PROJECTS
      [] t = "get_project_details" -> ACCOUNT_PROJECTS \o <<"/">> \o projectId
      [] t = "get_usage" -> PLAN_USAGE
      [] t = "get_current_plan" -> CURRENT_PLAN
      [] t = "list_images" ->
            IF projectId # <<>> THEN CONTENT_IMAGES \o PROJECT_ID_PARAM \o projectId
            ELSE CONTENT_IMAGES

\* the handler is called and sends its request
ListingStart(Tools, ProjectIds) ==
    /\ pc = "idle"
    /\ \E t \in Tools, id \in ProjectIds :
        /\ tool' = t
        /\ args' = [NoArgs EXCEPT !.project = id]
        /\ net' = [net EXCEPT !.apiCalls = @ + 1,
                               !.inflight = Request("api", API_BASE \o ListingPath(t, id),
                                                    TRUE)]
    /\ pc' = "await_api"
    /\ UNCHANGED <<origin, loc, url, pathPart, attempt, status, imageBuffer, obs, fs,
                   result>>

\* apiFetch, lines 23-38: throws when fetch throws, when the status is not
\* 2xx and when the body is not JSON
ApiFetchThrows(r) == r.threw \/ ~r.ok \/ ~r.parses

\* create_project, lines 824-844: res.json(), then data.success, then res.ok
CreateProjectThrowsNoFlag(r) == r.threw \/ ~r.parses \/ ~r.ok
CreateProjectThrows(r) == r.threw \/ ~r.parses \/ ~r.success \/ ~r.ok

\* the answer arrives: the handler returns the data, or returns from its
\* catch block with isError
ListingRecv(Responses) ==
    /\ pc = "await_api"
    /\ \E r \in Responses :
        /\ obs' = [obs EXCEPT !.api = r]
        /\ result' = IF tool = "create_project"
                      THEN IF CreateProjectThrows(r) THEN ReturnedError("create_project")
                           ELSE Returned(<<>>, NoHtml, FALSE, 0)
                      ELSE IF ApiFetchThrows(r) THEN ReturnedError("api_fetch")
                           ELSE Returned(<<>>, NoHtml, FALSE, 0)
    /\ pc' = "done"
    /\ net' = [net EXCEPT !.inflight = NoRequest]
    /\ UNCHANGED <<tool, args, origin, loc, url, pathPart, attempt, status, imageBuffer,
                   fs>>

----------------------------------------------------------------------------
(* The poll loop: generate_image lines 164-219, and its copies in           *)
(* create_image (326-381) and edit_image (670-725)                         *)

\* what remains of the handler once the loop is left, up to its next await:
\* the timeout's throw, the wait for mkdir, or the return
HtmlOfTool ==
    IF tool = "edit_image"
    THEN Html(url, args.editInstruction, loc.outputWidth, loc.outputHeight)
    ELSE Html(url, args.description, args.width, args.height)

\* lines 217-219: throw new Error(`... timeout after ${maxAttempts * 3} seconds. URL: ${url}`)
TimeoutErrorAttempts == Thrown("timeout", maxAttempts, url)
TimeoutError == Thrown("timeout", maxAttempts * DelaySeconds, url)

AfterLoop(buffer) ==
    /\ imageBuffer' = buffer
    /\ IF buffer.null
       THEN /\ pc' = "error"
            /\ result' = TimeoutError
       ELSE IF args.outputPath # <<>>
       THEN /\ pc' = "mkdir"
            /\ result' = result
       ELSE /\ pc' = "done"
            /\ result' = Returned(url, HtmlOfTool, FALSE, Len(buffer.bytes))

\* while (attempt < maxAttempts)
LoopGuardInclusive == attempt <= maxAttempts
LoopGuard == attempt < maxAttempts

\* line 166: the status request is issued
PollSend ==
    /\ pc = "loop"
    /\ LoopGuard
    /\ pc' = "await_status"
    /\ net' = [net EXCEPT !.statusRequests = @ + 1,
                           !.inflight = Request("status", PollUrl, TRUE)]
    /\ UNCHANGED <<tool, args, origin, loc, url, pathPart, attempt, status, imageBuffer,
                   obs, fs, result>>

\* the guard fails: the loop is left without an image
LoopExit ==
    /\ pc = "loop"
    /\ ~LoopGuard
    /\ AfterLoop(imageBuffer)
    /\ UNCHANGED <<tool, args, origin, loc, url, pathPart, attempt, status, net, obs, fs>>

\* pollRes.ok
ResponseOk(r) == r.status >= 200 /\ r.status <= 299

\* a response flagged as the terminal failure of the job
TerminalFailure(r) == ~r.threw /\ r.status >= 400 /\ r.body.jobStatus = "FAILED"

\* a 2xx response whose mediaAsset.data is a base64 data URL of known bytes
InlinePayload(r) == ~r.threw /\ ResponseOk(r) /\ r.body.parses /\ r.body.plain # <<>>

\* a 2xx response whose mediaAsset.data is a URL to fetch the bytes from
RemotePayload(r) ==
    /\ ~r.threw /\ ResponseOk(r) /\ r.body.parses
    /\ r.body.data # <<>> /\ ~StartsWith(r.body.data, DATA_SCHEME)

\* what the invocation has seen once status response r has arrived
Observe(r) ==
    [obs EXCEPT
        !.failedSeen = @ \/ TerminalFailure(r),
        !.only202 = IF InlinePayload(r) \/ RemotePayload(r) THEN @
                    ELSE @ /\ ~r.threw /\ r.status = 202,
        !.decodableAt = IF InlinePayload(r) THEN net.statusRequests ELSE @,
        !.readyStatus = IF InlinePayload(r) \/ RemotePayload(r) THEN r.status ELSE @,
        !.payload = IF InlinePayload(r) THEN r.body.plain ELSE @,
        !.lastAttempt = IF TerminalFailure(r) THEN "failed"
                        ELSE IF InlinePayload(r) THEN "ready"
                        ELSE IF RemotePayload(r) THEN "fetching"
                        ELSE "transient"]

\* lines 172-205: what one status response makes the try block do:
\* "image" (break with the decoded bytes), "fetch" (the payload is a URL to
\* fetch), "next" (fall out of the try block) or "catch" (an exception)
Interpret(r) ==
    IF r.threw THEN [step |-> "catch", bytes |-> <<>>]
    ELSE IF ResponseOk(r) THEN
        IF ~r.body.parses THEN [step |-> "catch", bytes |-> <<>>]
        ELSE IF r.body.data # <<>> THEN
            IF StartsWith(r.body.data, DATA_SCHEME) THEN
                IF Base64Part(r.body.data).defined
                THEN [step |-> "image", bytes |-> Base64Decode(Base64Part(r.body.data).value)]
                ELSE [step |-> "catch", bytes |-> <<>>]
            ELSE [step |-> "fetch", bytes |-> <<>>]
        ELSE IF r.status = 202 THEN [step |-> "next", bytes |-> <<>>]
        ELSE IF r.status >= 400 THEN [step |-> "catch", bytes |-> <<>>]
        ELSE [step |-> "next", bytes |-> <<>>]
    ELSE IF r.status = 202 THEN [step |-> "next", bytes |-> <<>>]
    ELSE [step |-> "catch", bytes |-> <<>>]

\* lines 206-214: the catch block rethrows only when status is "FAILED";
\* otherwise the attempt is counted and the delay starts
CatchOrNext(step) ==
    IF step = "catch" /\ status = "FAILED"
    THEN /\ pc' = "error"
         /\ result' = Thrown("poll_failed", 0, url)
         /\ UNCHANGED <<attempt, imageBuffer>>
    ELSE /\ attempt' = attempt + 1
         /\ pc' = "sleep"
         /\ UNCHANGED <<imageBuffer, result>>

\* the status response arrives
PollRecv(Responses) ==
    /\ pc = "await_status"
    /\ \E r \in Responses :
        LET i == Interpret(r)
        IN  /\ obs' = Observe(r)
            /\ IF i.step = "image"
               THEN /\ AfterLoop(BufferOf(i.bytes))
                    /\ net' = [net EXCEPT !.inflight = NoRequest]
                    /\ attempt' = attempt
               ELSE IF i.step = "fetch"
               THEN /\ pc' = "await_image"
                    /\ net' = [net EXCEPT !.inflight = Request("image", r.body.data, FALSE)]
                    /\ UNCHANGED <<attempt, imageBuffer, result>>
               ELSE /\ CatchOrNext(i.step)
                    /\ net' = [net EXCEPT !.inflight = NoRequest]
            /\ status' = IF i.step = "next" /\ r.status = 202 THEN "PENDING" ELSE status
    /\ UNCHANGED <<tool, args, origin, loc, url, pathPart, fs>>

\* lines 186-189: the answer of the secondary fetch of a URL payload; the
\* body is taken whatever the HTTP status
ImageRecv(Responses) ==
    /\ pc = "await_image"
    /\ \E r \in Responses :
        IF r.threw
        THEN /\ CatchOrNext("catch")
             /\ obs' = [obs EXCEPT !.only202 = FALSE, !.lastAttempt = "transient"]
        ELSE /\ AfterLoop(BufferOf(r.body))
             /\ obs' = IF r.ok
                       THEN [obs EXCEPT !.decodableAt = net.statusRequests,
                                        !.payload = r.body,
                                        !.lastAttempt = "ready"]
                       ELSE [obs EXCEPT !.only202 = FALSE, !.lastAttempt = "transient"]
             /\ attempt' = attempt
    /\ net' = [net EXCEPT !.inflight = NoRequest]
    /\ UNCHANGED <<tool, args, origin, loc, url, pathPart, status, fs>>

\* line 214: the three seconds have passed
SleepDone ==
    /\ pc = "sleep"
    /\ pc' = "loop"
    /\ net' = [net EXCEPT !.delays = @ + 1]
    /\ UNCHANGED <<tool, args, origin, loc, url, pathPart, attempt, status, imageBuffer,
                   obs, fs, result>>

\* lines 227-228: fs.mkdir(dir, { recursive: true })
Mkdir ==
    /\ pc = "mkdir"
    /\ \E ok \in BOOLEAN :
        IF ok
        THEN /\ pc' = "write"
             /\ fs' = [fs EXCEPT !.mkdirs = @ + 1]
             /\ result' = result
        ELSE /\ Throw("mkdir_failed")
             /\ fs' = fs
    /\ UNCHANGED <<tool, args, origin, loc, url, pathPart, attempt, status, imageBuffer,
                   net, obs>>

\* lines 231-253: fs.writeFile(outputPath, imageBuffer), and the return
WriteFile ==
    /\ pc = "write"
    /\ \E ok \in BOOLEAN :
        IF ok
        THEN /\ pc' = "done"
             /\ fs' = [fs EXCEPT !.writes = @ + 1, !.written = imageBuffer.bytes]
             /\ result' = Returned(url, HtmlOfTool, TRUE, Len(imageBuffer.bytes))
        ELSE /\ Throw("write_failed")
             /\ fs' = fs
    /\ UNCHANGED <<tool, args, origin, loc, url, pathPart, attempt, status, imageBuffer,
                   net, obs>>

----------------------------------------------------------------------------
(* The inputs of the model: arguments, responses of the remote service *)

\* "Happy Duck!!"
HAPPY_DUCK ==
    <<"H", "a", "p", "p", "y", " ", "D", "u", "c", "k", "!", "!">>

\* "Make it Blue"
MAKE_IT_BLUE ==
    <<"M", "a", "k", "e", " ", "i", "t", " ", "B", "l", "u", "e">>

\* "my-project"
PROJECT_P ==
    <<"m", "y", "-", "p", "r", "o", "j", "e", "c", "t">>

\* "./images/hero.png"
OUT_FILE ==
    <<".", "/", "i", "m", "a", "g", "e", "s", "/", "h", "e", "r", "o",
    ".", "p", "n", "g">>

\* "https://img.inliner.ai/my-project/happy-duck_800x600.png"
URL_GENERATED ==
    <<"h", "t", "t", "p", "s", ":", "/", "/", "i", "m", "g", ".", "i",
    "n", "l", "i", "n", "e", "r", ".", "a", "i", "/", "m", "y", "-", "p",
    "r", "o", "j", "e", "c", "t", "/", "h", "a", "p", "p", "y", "-", "d",
    "u", "c", "k", "_", "8", "0", "0", "x", "6", "0", "0", ".", "p", "n",
    "g">>

\* "https://img.inliner.ai/my-project/happy-duck_800x600.jpg?v=2"
URL_QUERY ==
    <<"h", "t", "t", "p", "s", ":", "/", "/", "i", "m", "g", ".", "i",
    "n", "l", "i", "n", "e", "r", ".", "a", "i", "/", "m", "y", "-", "p",
    "r", "o", "j", "e", "c", "t", "/", "h", "a", "p", "p", "y", "-", "d",
    "u", "c", "k", "_", "8", "0", "0", "x", "6", "0", "0", ".", "j", "p",
    "g", "?", "v", "=", "2">>

\* "https://IMG.INLINER.AI/my-project/happy-duck_800x600.png"
URL_UPPER_HOST ==
    <<"h", "t", "t", "p", "s", ":", "/", "/", "I", "M", "G", ".", "I",
    "N", "L", "I", "N", "E", "R", ".", "A", "I", "/", "m", "y", "-", "p",
    "r", "o", "j", "e", "c", "t", "/", "h", "a", "p", "p", "y", "-", "d",
    "u", "c", "k", "_", "8", "0", "0", "x", "6", "0", "0", ".", "p", "n",
    "g">>

\* "https://img.inliner.ai/my-project/icon_16x5000.png"
URL_SMALL ==
    <<"h", "t", "t", "p", "s", ":", "/", "/", "i", "m", "g", ".", "i",
    "n", "l", "i", "n", "e", "r", ".", "a", "i", "/", "m", "y", "-", "p",
    "r", "o", "j", "e", "c", "t", "/", "i", "c", "o", "n", "_", "1", "6",
    "x", "5", "0", "0", "0", ".", "p", "n", "g">>

\* "https://img.inliner.ai/my-project/photo.gif"
URL_UPLOADED_GIF ==
    <<"h", "t", "t", "p", "s", ":", "/", "/", "i", "m", "g", ".", "i",
    "n", "l", "i", "n", "e", "r", ".", "a", "i", "/", "m", "y", "-", "p",
    "r", "o", "j", "e", "c", "t", "/", "p", "h", "o", "t", "o", ".", "g",
    "i", "f">>

\* "https://img.inliner.ai/my-project/happy-duck_800x600.png/make-it-blue.png"
URL_EDITED ==
    <<"h", "t", "t", "p", "s", ":", "/", "/", "i", "m", "g", ".", "i",
    "n", "l", "i", "n", "e", "r", ".", "a", "i", "/", "m", "y", "-", "p",
    "r", "o", "j", "e", "c", "t", "/", "h", "a", "p", "p", "y", "-", "d",
    "u", "c", "k", "_", "8", "0", "0", "x", "6", "0", "0", ".", "p", "n",
    "g", "/", "m", "a", "k", "e", "-", "i", "t", "-", "b", "l", "u", "e",
    ".", "p", "n", "g">>

\* "https://img.inliner.ai/my-project/readme"
URL_NO_EXT ==
    <<"h", "t", "t", "p", "s", ":", "/", "/", "i", "m", "g", ".", "i",
    "n", "l", "i", "n", "e", "r", ".", "a", "i", "/", "m", "y", "-", "p",
    "r", "o", "j", "e", "c", "t", "/", "r", "e", "a", "d", "m", "e">>

\* "https://evilimg.inliner.ai/my-project/happy-duck_800x600.png"
URL_SUFFIX_HOST ==
    <<"h", "t", "t", "p", "s", ":", "/", "/", "e", "v", "i", "l", "i",
    "m", "g", ".", "i", "n", "l", "i", "n", "e", "r", ".", "a", "i", "/",
    "m", "y", "-", "p", "r", "o", "j", "e", "c", "t", "/", "h", "a", "p",
    "p", "y", "-", "d", "u", "c", "k", "_", "8", "0", "0", "x", "6", "0",
    "0", ".", "p", "n", "g">>

\* "https://cdn.img.inliner.ai/my-project/happy-duck_800x600.png"
URL_SUBDOMAIN ==
    <<"h", "t", "t", "p", "s", ":", "/", "/", "c", "d", "n", ".", "i",
    "m", "g", ".", "i", "n", "l", "i", "n", "e", "r", ".", "a", "i", "/",
    "m", "y", "-", "p", "r", "o", "j", "e", "c", "t", "/", "h", "a", "p",
    "p", "y", "-", "d", "u", "c", "k", "_", "8", "0", "0", "x", "6", "0",
    "0", ".", "p", "n", "g">>

\* "https://img.inliner.ai.evil.com/my-project/happy-duck_800x600.png"
URL_PREFIX_HOST ==
    <<"h", "t", "t", "p", "s", ":", "/", "/", "i", "m", "g", ".", "i",
    "n", "l", "i", "n", "e", "r", ".", "a", "i", ".", "e", "v", "i", "l",
    ".", "c", "o", "m", "/", "m", "y", "-", "p", "r", "o", "j", "e", "c",
    "t", "/", "h", "a", "p", "p", "y", "-", "d", "u", "c", "k", "_", "8",
    "0", "0", "x", "6", "0", "0", ".", "p", "n", "g">>

\* "https://example.com/my-project/happy-duck_800x600.png"
URL_OTHER_HOST ==
    <<"h", "t", "t", "p", "s", ":", "/", "/", "e", "x", "a", "m", "p",
    "l", "e", ".", "c", "o", "m", "/", "m", "y", "-", "p", "r", "o", "j",
    "e", "c", "t", "/", "h", "a", "p", "p", "y", "-", "d", "u", "c", "k",
    "_", "8", "0", "0", "x", "6", "0", "0", ".", "p", "n", "g">>

\* "https://img.inliner.ai@example.com/my-project/happy-duck_800x600.png"
URL_USERINFO ==
    <<"h", "t", "t", "p", "s", ":", "/", "/", "i", "m", "g", ".", "i",
    "n", "l", "i", "n", "e", "r", ".", "a", "i", "@", "e", "x", "a", "m",
    "p", "l", "e", ".", "c", "o", "m", "/", "m", "y", "-", "p", "r", "o",
    "j", "e", "c", "t", "/", "h", "a", "p", "p", "y", "-", "d", "u", "c",
    "k", "_", "8", "0", "0", "x", "6", "0", "0", ".", "p", "n", "g">>

\* "my-project/happy-duck_800x600.png"
URL_UNPARSABLE ==
    <<"m", "y", "-", "p", "r", "o", "j", "e", "c", "t", "/", "h", "a",
    "p", "p", "y", "-", "d", "u", "c", "k", "_", "8", "0", "0", "x", "6",
    "0", "0", ".", "p", "n", "g">>

\* "/tmp/My Cat.JPEG"
FILE_JPEG ==
    <<"/", "t", "m", "p", "/", "M", "y", " ", "C", "a", "t", ".", "J",
    "P", "E", "G">>

\* "/tmp/a.JpEg"
FILE_MIXED == <<"/", "t", "m", "p", "/", "a", ".", "J", "p", "E", "g">>

\* "/tmp/scan.bmp"
FILE_BMP ==
    <<"/", "t", "m", "p", "/", "s", "c", "a", "n", ".", "b", "m", "p">>

\* "/tmp/!!!.png"
FILE_PUNCT ==
    <<"/", "t", "m", "p", "/", "!", "!", "!", ".", "p", "n", "g">>

\* "Family Photo"
UPLOAD_PROMPT ==
    <<"F", "a", "m", "i", "l", "y", " ", "P", "h", "o", "t", "o">>

\* "data:image/png;base64,"
DATA_PREFIX ==
    <<"d", "a", "t", "a", ":", "i", "m", "a", "g", "e", "/", "p", "n",
    "g", ";", "b", "a", "s", "e", "6", "4", ",">>

\* "data:image/png;base64"
DATA_NO_COMMA ==
    <<"d", "a", "t", "a", ":", "i", "m", "a", "g", "e", "/", "p", "n",
    "g", ";", "b", "a", "s", "e", "6", "4">>

\* "https://cdn.example.com/out.png"
REMOTE_PAYLOAD_URL ==
    <<"h", "t", "t", "p", "s", ":", "/", "/", "c", "d", "n", ".", "e",
    "x", "a", "m", "p", "l", "e", ".", "c", "o", "m", "/", "o", "u", "t",
    ".", "p", "n", "g">>

\* "my-project/happy-duck_800x600.png"
PATH_HAPPY_DUCK ==
    <<"m", "y", "-", "p", "r", "o", "j", "e", "c", "t", "/", "h", "a",
    "p", "p", "y", "-", "d", "u", "c", "k", "_", "8", "0", "0", "x", "6",
    "0", "0", ".", "p", "n", "g">>

FIRST_PROJECT == <<"f", "i", "r", "s", "t">>
MAIN_PROJECT == <<"m", "a", "i", "n">>

\* the characters free text is drawn from: a letter, a capital, a hyphen and
\* a character outside [a-zA-Z0-9-]
Alphabet == {"a", "B", "-", "!"}

MaxLen == 3
MaxTail == 2

Strings(n) == UNION {[1..k -> Alphabet] : k \in 0..n}

\* texts as long as the slice bound, give or take their last characters
LongStrings ==
    {Repeat("a", n) \o t : n \in {SliceLen - 2, SliceLen - 1}, t \in Strings(MaxTail)}

PathDescriptions == Strings(MaxLen) \cup LongStrings \cup {HAPPY_DUCK}

EditTexts == {<<>>, MAKE_IT_BLUE, <<"!", "a", "!">>, <<"!">>}

PathDims == {<<800, 600>>, <<100, 4096>>, <<99, 600>>, <<800, 4097>>}

EditDims == {<<0, 0>>, <<900, 0>>, <<0, 500>>, <<900, 500>>, <<99, 0>>}

SourceUrls ==
    {URL_GENERATED, URL_QUERY, URL_UPPER_HOST, URL_SMALL, URL_UPLOADED_GIF, URL_EDITED,
     URL_NO_EXT, URL_SUFFIX_HOST, URL_SUBDOMAIN, URL_PREFIX_HOST, URL_OTHER_HOST,
     URL_USERINFO, URL_UNPARSABLE}

SourcePaths == {FILE_JPEG, FILE_MIXED, FILE_BMP, FILE_PUNCT}

\* the bytes the service encodes, with their base64 text
InlineVectors ==
    {[b64 |-> <<"A", "Q", "I", "D">>, bytes |-> <<1, 2, 3>>],
     [b64 |-> <<"a", "G", "k", "=">>, bytes |-> <<104, 105>>],
     [b64 |-> <<"/", "w", "=", "=">>, bytes |-> <<255>>]}

StatusBodies ==
    {[parses |-> FALSE, data |-> <<>>, plain |-> <<>>, jobStatus |-> "none"],
     [parses |-> TRUE, data |-> <<>>, plain |-> <<>>, jobStatus |-> "PENDING"],
     [parses |-> TRUE, data |-> <<>>, plain |-> <<>>, jobStatus |-> "FAILED"],
     [parses |-> TRUE, data |-> DATA_NO_COMMA, plain |-> <<>>, jobStatus |-> "DONE"],
     [parses |-> TRUE, data |-> REMOTE_PAYLOAD_URL, plain |-> <<>>, jobStatus |-> "DONE"]}
    \cup {[parses |-> TRUE, data |-> DATA_PREFIX \o v.b64, plain |-> v.bytes,
           jobStatus |-> "DONE"] : v \in InlineVectors}

HttpStatuses == {200, 202, 404, 500}

StatusResponses ==
    {[threw |-> TRUE, status |-> 0,
      body |-> [parses |-> FALSE, data |-> <<>>, plain |-> <<>>, jobStatus |-> "none"]]}
    \cup {[threw |-> FALSE, status |-> c, body |-> b] : c \in HttpStatuses, b \in StatusBodies}

ImageResponses ==
    {[threw |-> TRUE, ok |-> FALSE, body |-> <<>>],
     [threw |-> FALSE, ok |-> TRUE, body |-> <<137, 80, 78, 71>>],
     [threw |-> FALSE, ok |-> FALSE, body |-> <<52, 48, 52>>]}

ProjectResponses ==
    {[threw |-> TRUE, projects |-> <<>>],
     [threw |-> FALSE, projects |-> <<>>],
     [threw |-> FALSE,
      projects |-> <<[project |-> FIRST_PROJECT, isDefault |-> FALSE],
                     [project |-> MAIN_PROJECT, isDefault |-> TRUE]>>]}

ApiResponses ==
    {[threw |-> TRUE, ok |-> FALSE, parses |-> FALSE, success |-> FALSE]}
    \cup {[threw |-> FALSE, ok |-> k, parses |-> j, success |-> j /\ u] :
            k \in BOOLEAN, j \in BOOLEAN, u \in BOOLEAN}

Metadata ==
    {[threw |-> TRUE, width |-> 0, height |-> 0],
     [threw |-> FALSE, width |-> 0, height |-> 0],
     [threw |-> FALSE, width |-> 640, height |-> 480],
     [threw |-> FALSE, width |-> 50, height |-> 5000]}

----------------------------------------------------------------------------
(* The server: one invocation of a tool, from its call to its return *)

Next ==
    \/ GenerateImageUrl({PROJECT_P}, {HAPPY_DUCK, <<"!">>}, {<<800, 600>>, <<99, 600>>},
                        {<<>>, JPG}, {<<>>, MAKE_IT_BLUE})
    \/ GenerateImageStart({PROJECT_P}, {HAPPY_DUCK}, {<<800, 600>>, <<800, 4097>>},
                          {PNG, GIF}, {<<>>, OUT_FILE})
    \/ CreateImageStart({<<>>, PROJECT_P}, {HAPPY_DUCK}, {<<0, 0>>}, {<<>>}, {<<>>})
    \/ ProjectsRecv(ProjectResponses)
    \/ EditImageStart({URL_GENERATED, URL_SUFFIX_HOST, URL_OTHER_HOST, URL_UNPARSABLE,
                       URL_UPLOADED_GIF},
                      {<<>>}, {<<>>}, {<<>>}, {MAKE_IT_BLUE}, {<<0, 0>>}, {<<>>}, {<<>>})
    \/ EditImageStart({<<>>}, {<<>>, FILE_JPEG, FILE_BMP, FILE_PUNCT}, {PROJECT_P}, {<<>>},
                      {MAKE_IT_BLUE}, {<<900, 0>>}, {<<>>}, {<<>>})
    \/ EditImageStart({URL_QUERY}, {<<>>}, {<<>>}, {<<>>}, {MAKE_IT_BLUE},
                      {<<0, 500>>}, {PNG}, {OUT_FILE})
    \/ EditGenerated({PROJECT_P}, {HAPPY_DUCK}, {<<800, 600>>}, {PNG},
                     {MAKE_IT_BLUE}, {<<0, 0>>}, {<<>>})
    \/ ListingStart(ListingTools, {<<>>, PROJECT_P})
    \/ ListingRecv(ApiResponses)
    \/ ReadFile
    \/ UploadRecv
    \/ Sharp(Metadata)
    \/ PollSend
    \/ PollRecv(StatusResponses)
    \/ ImageRecv(ImageResponses)
    \/ SleepDone
    \/ LoopExit
    \/ Mkdir
    \/ WriteFile

Spec == Init /\ [][Next]_vars

(* The same handlers up to the start of their poll loop, over every text,   *)
(* dimension, format and source URL of the input sets                      *)
NextPath ==
    \/ GenerateImageUrl({PROJECT_P}, PathDescriptions, PathDims, {<<>>, JPG, GIF}, EditTexts)
    \/ GenerateImageStart({PROJECT_P}, PathDescriptions, PathDims, {<<>>, JPG, GIF}, {<<>>})
    \/ CreateImageStart({<<>>, PROJECT_P}, PathDescriptions, PathDims \cup {<<0, 0>>},
                        {<<>>, JPG, GIF}, {<<>>})
    \/ ProjectsRecv(ProjectResponses)
    \/ EditImageStart(SourceUrls, {<<>>, FILE_JPEG}, {<<>>}, {<<>>}, EditTexts, EditDims,
                      {<<>>, JPG, GIF}, {<<>>})
    \/ EditImageStart({<<>>}, {<<>>} \cup SourcePaths, {<<>>, PROJECT_P},
                      {<<>>, UPLOAD_PROMPT}, {MAKE_IT_BLUE}, {<<0, 0>>, <<900, 0>>},
                      {<<>>, PNG}, {<<>>})
    \/ EditGenerated({PROJECT_P}, PathDescriptions, PathDims, {PNG, JPG},
                     {MAKE_IT_BLUE}, {<<0, 0>>, <<900, 0>>}, {<<>>, JPG})
    \/ ReadFile
    \/ UploadRecv
    \/ Sharp(Metadata)

SpecPath == Init /\ [][NextPath]_vars

----------------------------------------------------------------------------
(* The outcomes of the poller *)

\* the handler is inside its poll loop
InPoll == pc \in {"loop", "await_status", "await_image", "sleep"}

\* the handler has reached its poll loop
PollEntered == tool \in PollTools /\ url # <<>>

\* the loop was left with an image: the handler saves it, returns, or fails
\* on the file system
PollerReady ==
    \/ pc \in {"mkdir", "write", "done"}
    \/ pc = "error" /\ result.error \in {"mkdir_failed", "write_failed"}

\* the error of a status response was rethrown
PollerFailed == pc = "error" /\ result.error = "poll_failed"

\* the loop ran out of attempts
PollerTimeout == pc = "error" /\ result.error = "timeout"

OutcomeCount ==
    (IF PollerReady THEN 1 ELSE 0) + (IF PollerFailed THEN 1 ELSE 0)
        + (IF PollerTimeout THEN 1 ELSE 0)

\* the handlers that build a path from a description
GenTools == {"generate_image_url", "generate_image", "create_image"}

\* the description slug of the running handler
SlugOfTool(description) ==
    CASE tool = "generate_image_url" -> UrlSanitized(description)
      [] tool = "generate_image" -> GenSanitized(description)
      [] tool = "create_image" -> CreateSanitized(description)
      [] OTHER -> description

\* only [a-z0-9-], no two hyphens in a row, no hyphen at either end
WellFormedSlug(s) ==
    /\ \A i \in 1..Len(s) : IsSlugChar(s[i])
    /\ \A i \in 1..(Len(s) - 1) : ~(s[i] = "-" /\ s[i + 1] = "-")
    /\ Len(s) > 0 => s[1] # "-" /\ s[Len(s)] # "-"

\* the project the path of the running handler is built under
ProjectOfTool == IF tool = "create_image" THEN loc.resolvedProject ELSE args.project

\* the arguments are an in-range ImageSpec
InRange == DimOk(args.width) /\ DimOk(args.height) /\ FormatOk(args.format)

\* the path the running handler has built, without the image host
BuiltPath ==
    IF tool = "generate_image_url"
    THEN SubSeq(url, Len(IMG_BASE) + 2, Len(url))
    ELSE pathPart

----------------------------------------------------------------------------
(* Properties *)

\* with fair scheduling of the awaited continuations: every fetch settles and
\* every timer fires
SpecLive ==
    /\ Spec
    /\ WF_vars(PollSend)
    /\ WF_vars(PollRecv(StatusResponses))
    /\ WF_vars(ImageRecv(ImageResponses))
    /\ WF_vars(SleepDone)
    /\ WF_vars(LoopExit)

\* C1: whatever the status responses are, the poll loop of generate_image,
\* create_image and edit_image issues at most 60 status requests and waits at
\* most 60 times 3 seconds, and it always ends, in exactly one of Ready,
\* Failed and Timeout.
C1_PollTerminates ==
    /\ [](/\ net.statusRequests <= 60
          /\ net.delays <= 60
          /\ net.delays * DelaySeconds <= 180
          /\ (PollEntered /\ ~InPoll) => OutcomeCount = 1
          /\ InPoll => OutcomeCount = 0)
    /\ (InPoll ~> (PollEntered /\ ~InPoll /\ OutcomeCount = 1))

C1_Witness ==
    /\ tool = "edit_image"
    /\ PollerTimeout
    /\ net.statusRequests = 60
    /\ net.delays = 60

\* C2: once a status response with an HTTP status >= 400 and a FAILED job has
\* arrived, the handler has thrown that error and no further status request
\* is issued: the request that brought it is the last one.
C2_FailurePropagates == obs.failedSeen => PollerFailed

\* C3: when the k-th status response is the first to carry a decodable
\* mediaAsset.data, the loop is left with exactly the decoded bytes, after
\* exactly k status requests and none later, whatever the k-1 responses
\* before it were.
C3_ReadyAtFirstPayload ==
    obs.decodableAt > 0 =>
        /\ PollerReady
        /\ ~imageBuffer.null
        /\ imageBuffer.bytes = obs.payload
        /\ net.statusRequests = obs.decodableAt
        /\ attempt = obs.decodableAt - 1
        /\ result.kind = "ok" => result.size = Len(obs.payload)
        /\ fs.writes > 0 => fs.written = obs.payload

C3_Witness ==
    /\ obs.decodableAt = 30
    /\ obs.only202
    /\ obs.readyStatus = 200
    /\ obs.payload = <<1, 2, 3>>
    /\ imageBuffer.bytes = <<1, 2, 3>>
    /\ result.kind = "ok"

\* C4: the timeout error is thrown exactly when the loop has used all 60
\* attempts without an image; it names 180 seconds and the image URL, which
\* ends with the resource path; it is never thrown after fewer attempts.
C4_TimeoutExactly ==
    /\ PollerTimeout =>
          /\ attempt = 60
          /\ net.statusRequests = 60
          /\ imageBuffer.null
          /\ result.seconds = 180
          /\ result.url = url
          /\ url = IMG_BASE \o <<"/">> \o pathPart
    /\ (PollEntered /\ ~InPoll /\ attempt = 60) => PollerTimeout
    /\ (PollEntered /\ ~InPoll /\ attempt < 60) => ~PollerTimeout

C4_Witness ==
    /\ tool = "generate_image"
    /\ PollerTimeout
    /\ result.seconds = 180
    /\ result.url = IMG_BASE \o <<"/">> \o PATH_HAPPY_DUCK
    /\ ~obs.only202

\* C5: canonicalizing a description slug again gives the same slug.
C5_Idempotent ==
    (tool \in GenTools /\ result.error # "validation") =>
        SlugOfTool(SlugOfTool(args.description)) = SlugOfTool(args.description)

\* C6: every slug a handler puts in a path (description slug, edit slug,
\* upload-prompt slug) is made of [a-z0-9-] only, has no two hyphens in a row
\* and no hyphen at either end, and a description slug has at most 100
\* characters.
C6_SlugsWellFormed ==
    /\ (tool \in GenTools /\ result.error # "validation") =>
          /\ WellFormedSlug(SlugOfTool(args.description))
          /\ Len(SlugOfTool(args.description)) <= 100
    /\ (tool = "generate_image_url" /\ result.error # "validation") =>
          WellFormedSlug(UrlSanitizedEdit(args.edit))
    /\ tool = "edit_image" =>
          /\ WellFormedSlug(loc.sanitizedEdit)
          /\ WellFormedSlug(loc.sanitizedPrompt)

\* C7: when edit_image is given the URL that generate_image built for an
\* in-range ImageSpec, the resolver recovers the spec's width, height and
\* format, an empty description slug included.
C7_RoundTrip ==
    origin.known =>
        /\ loc.resolved
        /\ loc.sourceWidth = origin.width
        /\ loc.sourceHeight = origin.height
        /\ loc.sourceFormat = origin.format

\* C8: every width, height and format a handler writes into a path or an
\* HTML fragment is in range: 100 <= width, height <= 4096 and the format is
\* png or jpg; for edit_image these are the output width, height and format.
C8_WrittenSpecInRange ==
    /\ (tool \in GenTools /\ result.error # "validation") =>
          /\ args.width \in 100..4096
          /\ args.height \in 100..4096
          /\ args.format \in {PNG, JPG}
    /\ (tool = "edit_image" /\ loc.resolved) =>
          /\ loc.outputWidth \in 100..4096
          /\ loc.outputHeight \in 100..4096
          /\ loc.outputFormat \in {PNG, JPG}

\* C9: edit_image throws, with no status request issued, for every source
\* URL whose host is not img.inliner.ai, a host that only ends with that
\* string and a URL that does not parse included.
C9_ForeignHostRejected ==
    (tool = "edit_image" /\ args.sourceUrl # <<>> /\ loc.hostname # IMG_HOST_SUFFIX) =>
        net.statusRequests = 0

SLUG_MAKE_IT_BLUE ==
    <<"m", "a", "k", "e", "-", "i", "t", "-", "b", "l", "u", "e">>

\* "-900x600"
SUFFIX_900_600 == <<"-", "9", "0", "0", "x", "6", "0", "0">>

\* the rule of the specification for an edit instruction: lowercase, replace,
\* collapse, strip
EditRule(text) == StripEdgeHyphens(CollapseHyphens(ReplaceNonSlug(ToLowerCase(text))))

\* -{outW}x{outH}, a dimension that was not given taken from the source
DimSuffix ==
    <<"-">> \o NumToString(IF args.width # 0 THEN args.width ELSE loc.sourceWidth)
        \o <<"x">> \o NumToString(IF args.height # 0 THEN args.height ELSE loc.sourceHeight)

\* C11: once edit_image has built its path, the edit slug is the
\* canonicalized edit instruction, followed by -{outW}x{outH} exactly when a
\* width or a height was given, a missing one being the source's; the path is
\* the source path followed by /{editSlug}.{format}; "Make it Blue" with
\* width 900 on an 800x600 source gives make-it-blue-900x600.
C11_EditSlugSuffix ==
    (tool = "edit_image" /\ loc.resolved) =>
        /\ (args.width # 0 \/ args.height # 0) =>
               loc.sanitizedEdit = EditRule(args.editInstruction) \o DimSuffix
        /\ (args.width = 0 /\ args.height = 0) =>
               loc.sanitizedEdit = EditRule(args.editInstruction)
        /\ loc.editPath = loc.sourcePathFromUrl \o <<"/">> \o loc.sanitizedEdit
                              \o <<".">> \o loc.outputFormat
        /\ pathPart = loc.editPath \o loc.sourceQuery
        /\ (/\ args.editInstruction = MAKE_IT_BLUE /\ args.width = 900
            /\ args.height = 0 /\ loc.sourceHeight = 600)
               => loc.sanitizedEdit = SLUG_MAKE_IT_BLUE \o SUFFIX_900_600

C11_Witness ==
    /\ tool = "edit_image"
    /\ pc = "loop"
    /\ args.sourceUrl = URL_GENERATED
    /\ args.width = 900
    /\ args.height = 0
    /\ loc.sanitizedEdit = SLUG_MAKE_IT_BLUE \o SUFFIX_900_600
    /\ pathPart = PATH_HAPPY_DUCK \o <<"/">> \o SLUG_MAKE_IT_BLUE \o SUFFIX_900_600
                      \o <<".">> \o PNG

\* the text after the last "." of a file name, lowercased; empty without one
LowerExtension(p) ==
    IF LastIndexOf(LastSegment(p), ".") > 1
    THEN ToLowerCase(SubSeq(LastSegment(p), LastIndexOf(LastSegment(p), ".") + 1,
                            Len(LastSegment(p))))
    ELSE <<>>

\* a file name without its extension
FileStem(p) ==
    IF LastIndexOf(LastSegment(p), ".") > 1
    THEN SubSeq(LastSegment(p), 1, LastIndexOf(LastSegment(p), ".") - 1)
    ELSE LastSegment(p)

\* the upload flow was entered: no source URL, a source path and a project
UploadFlow ==
    /\ tool = "edit_image"
    /\ result.error # "validation"
    /\ args.sourceUrl = <<>>
    /\ args.sourcePath # <<>>
    /\ args.project # <<>>

\* the file to upload has a disallowed extension or an empty upload slug
UploadInvalid ==
    \/ LowerExtension(args.sourcePath) \notin {PNG, JPG, JPEG, WEBP, GIF}
    \/ EditRule(IF args.uploadPrompt # <<>> THEN args.uploadPrompt
                ELSE FileStem(args.sourcePath)) = <<>>

\* C12: in the upload flow a file with a disallowed extension or an empty
\* upload slug makes edit_image throw once the file is read, and no upload,
\* status or other network request is ever issued for it.
C12_UploadValidatedFirst ==
    (UploadFlow /\ UploadInvalid) =>
        /\ pc \in {"read_file", "error"}
        /\ pc = "error" =>
               result.error \in {"read_failed", "invalid_file_type", "upload_prompt_empty"}
        /\ net = NoNet
        /\ url = <<>>

C12_Witness ==
    /\ UploadFlow
    /\ args.sourcePath = FILE_PUNCT
    /\ fs.reads = 1
    /\ pc = "error"
    /\ result.error = "upload_prompt_empty"
    /\ net = NoNet

\* ".jpg" and ".jpeg"
DOT_JPG == <<".">> \o JPG
DOT_JPEG == <<".">> \o JPEG

\* C13: when the uploaded file's extension is jpeg in any letter case and no
\* format argument is given, the format edit_image writes is jpg: the output
\* format is jpg and the path, the image URL and the poll URL end with .jpg,
\* whichever of .jpg and .jpeg the upload endpoint returned.
C13_JpegNormalized ==
    (/\ UploadFlow /\ LowerExtension(args.sourcePath) = JPEG /\ args.format = <<>>
     /\ loc.resolved) =>
        /\ loc.sourceFormat = JPG
        /\ loc.outputFormat = JPG
        /\ EndsWith(loc.editPath, DOT_JPG)
        /\ EndsWith(url, DOT_JPG)
        /\ EndsWith(PollUrl, DOT_JPG)

C13_Witness ==
    /\ UploadFlow
    /\ args.sourcePath = FILE_JPEG
    /\ args.format = <<>>
    /\ pc = "loop"
    /\ EndsWith(loc.resolvedSourceUrl, DOT_JPEG)
    /\ loc.outputFormat = JPG
    /\ EndsWith(pathPart, DOT_JPG)

\* the projects of the account that are marked as its default
AccountDefaults ==
    {i \in 1..Len(obs.account.projects) : obs.account.projects[i].isDefault}

\* the documented order: the setting, the account default, the first
\* project, "default"
DocumentedProject ==
    IF obs.envDefaultProject # <<>> THEN obs.envDefaultProject
    ELSE IF ~obs.account.threw /\ AccountDefaults # {}
    THEN obs.account.projects[CHOOSE i \in AccountDefaults : TRUE].project
    ELSE IF ~obs.account.threw /\ Len(obs.account.projects) > 0
    THEN obs.account.projects[1].project
    ELSE DEFAULT_PROJECT

\* C14: when create_image is called without a project, the project of the
\* path it builds is INLINER_DEFAULT_PROJECT if that is set, else the
\* account's default project, else its first project, else "default".
C14_ProjectOrder ==
    (tool = "create_image" /\ args.project = <<>> /\ url # <<>>) =>
        loc.resolvedProject = DocumentedProject

\* the HTTP call of the listing operation failed: fetch threw, the status was
\* not 2xx, the body did not parse, or its success flag was false
ApiCallFailed ==
    obs.api.threw \/ ~obs.api.ok \/ ~obs.api.parses \/ ~obs.api.success

\* C15 as stated: a listing operation never throws: it returns a result
\* marked isError exactly when its HTTP call failed (network error, non-2xx
\* status, unparsable body, success flag false); a materializing operation
\* that ends in an error has thrown it.
C15_ListingCatches ==
    /\ (tool \in ListingTools /\ pc = "done") =>
          /\ result.kind \in {"ok", "is_error"}
          /\ result.kind = "is_error" <=> ApiCallFailed
    /\ tool \in ListingTools => pc # "error"
    /\ (tool \in PollTools /\ pc = "error") => result.kind = "error"

\* C15: a listing operation never throws; create_project returns a result
\* marked isError exactly when fetch threw, the status was not 2xx, the body
\* did not parse or its success flag was false; the five operations that go
\* through apiFetch return one exactly when fetch threw, the status was not
\* 2xx or the body did not parse, and return a parsed 2xx body as their
\* result whatever it holds; a materializing operation that ends in an error
\* has thrown it.
C15_ListingCatchesByCall ==
    /\ (tool \in ListingTools /\ pc = "done") =>
          /\ result.kind \in {"ok", "is_error"}
          /\ tool = "create_project" => (result.kind = "is_error" <=> ApiCallFailed)
          /\ tool # "create_project" =>
                (result.kind = "is_error" <=>
                    (obs.api.threw \/ ~obs.api.ok \/ ~obs.api.parses))
    /\ tool \in ListingTools => pc # "error"
    /\ (tool \in PollTools /\ pc = "error") => result.kind = "error"

C15_Witness ==
    /\ tool = "create_project"
    /\ pc = "done"
    /\ result.kind = "is_error"
    /\ obs.api.ok
    /\ obs.api.parses
    /\ ~obs.api.success

\* a request is awaiting its answer
RequestInFlight == net.inflight.kind # "none"

\* C16 as stated: every HTTP request the server issues carries the header
\* Authorization: Bearer {apiKey}, the secondary fetch of a remote payload
\* URL included.
C16_EveryRequestAuthorized == RequestInFlight => net.inflight.auth

\* C16: every request to the API (status poll, upload, account/projects of
\* create_image, the call of a listing operation) goes to API_BASE and
\* carries the Authorization header; the secondary fetch goes to the URL the
\* status response gave and carries no Authorization header.
C16_ApiRequestsAuthorized ==
    /\ net.inflight.kind \in {"none", "status", "upload", "api", "image"}
    /\ net.inflight.kind \in {"status", "upload", "api"} =>
          /\ net.inflight.auth
          /\ StartsWith(net.inflight.url, API_BASE \o <<"/">>)
    /\ net.inflight.kind = "image" => ~net.inflight.auth
    /\ pc \in {"await_status", "await_upload", "await_projects", "await_api",
               "await_image"} <=> RequestInFlight

C16_Witness ==
    /\ pc = "await_image"
    /\ net.inflight.kind = "image"
    /\ net.inflight.url = REMOTE_PAYLOAD_URL
    /\ ~net.inflight.auth
    /\ net.statusRequests = 2

\* the last answered attempt was neither Ready nor a terminal failure
LastAttemptTransient == obs.lastAttempt = "transient"

\* C17: an attempt that is neither Ready nor a terminal failure (a 202, a 2xx
\* without payload, a thrown network error, a malformed body, a failed
\* secondary fetch) leaves the poller polling with no image and nothing
\* returned, has consumed exactly one attempt, and is followed by one delay
\* before the next request; the only way out without another answer is the
\* timeout after attempt 60.
C17_TransientStaysPolling ==
    LastAttemptTransient =>
        /\ imageBuffer.null
        /\ result.kind # "ok"
        /\ pc \in {"sleep", "loop", "await_status", "error"}
        /\ pc = "error" => attempt = maxAttempts /\ result = TimeoutError
        /\ pc = "sleep" => attempt = net.statusRequests /\ net.delays = attempt - 1
        /\ pc = "loop" => attempt = net.statusRequests /\ net.delays = attempt
        /\ pc = "await_status" =>
              net.statusRequests = attempt + 1 /\ net.delays = attempt

\* the edit segment of the URL generate_image_url returned: the text between
\* the last "/" and the extension
UrlEditSegment == FileStem(url)

\* the text the upload slug is made from
UploadPromptText ==
    IF args.uploadPrompt # <<>> THEN args.uploadPrompt ELSE FileStem(args.sourcePath)

\* C18: every free-text field that becomes a path segment goes through the
\* same rule (lowercase, replace, collapse hyphens, strip the leading and the
\* trailing hyphen, no truncation): the edit segment of generate_image_url,
\* the edit slug of edit_image before its dimension suffix, and the upload
\* slug of edit_image.
C18_SameRuleEverywhere ==
    /\ (tool = "generate_image_url" /\ pc = "done" /\ args.edit # <<>>) =>
           UrlEditSegment = EditRule(args.edit)
    /\ (tool = "edit_image" /\ loc.resolved /\ args.width = 0 /\ args.height = 0) =>
           loc.sanitizedEdit = EditRule(args.editInstruction)
    /\ (UploadFlow /\ loc.sanitizedPrompt # <<>>) =>
           loc.sanitizedPrompt = EditRule(UploadPromptText)

\* the URL of the image before the edit, as generate_image_url's arguments
\* name it
UneditedUrl ==
    IMG_BASE \o <<"/">> \o PathTemplate(args.project, UrlSanitized(args.description),
                                        args.width, args.height, args.format)

\* C19: the path of an edit is the path of the image before the edit,
\* {project}/{slug}_{width}x{height}.{format}, followed by
\* /{editSlug}.{format}: generate_image_url called with an edit instruction,
\* and edit_image called with the un-edited URL of the image, no width, no
\* height and no format, both return that URL.
C19_EditPathForm ==
    /\ (tool = "generate_image_url" /\ pc = "done" /\ args.edit # <<>>) =>
           url = UneditedUrl \o <<"/">> \o UrlEditSegment \o <<".">> \o args.format
    /\ (/\ tool = "edit_image" /\ origin.known /\ loc.resolved
        /\ args.width = 0 /\ args.height = 0 /\ args.format = <<>>) =>
           /\ url = args.sourceUrl \o <<"/">> \o loc.sanitizedEdit \o <<".">>
                        \o origin.format
           /\ loc.sanitizedEdit = EditRule(args.editInstruction)

\* the upload of this invocation has been answered
UploadAnswered == UploadFlow /\ net.uploads = 1 /\ pc # "await_upload"

\* the answer is a non-2xx status, lacks a true success flag, or lacks
\* content.prompt
UploadRejected ==
    \/ obs.upload.threw
    \/ ~obs.upload.ok
    \/ ~obs.upload.success
    \/ obs.upload.prompt = <<>>

\* C20: in the upload flow an answer that is a non-2xx status, lacks a true
\* success flag or lacks content.prompt makes edit_image throw, and no status
\* request is ever issued; a status request is issued only after one upload
\* whose answer had both, and the source is then the returned path.
C20_UploadFatal ==
    /\ (UploadAnswered /\ UploadRejected) =>
           /\ pc = "error"
           /\ result.kind = "error"
           /\ result.error \in {"upload_fetch", "upload_failed_status", "upload_body",
                                "upload_failed", "upload_no_prompt"}
           /\ net.statusRequests = 0
           /\ url = <<>>
    /\ (UploadFlow /\ net.statusRequests > 0) =>
           /\ net.uploads = 1
           /\ ~UploadRejected
           /\ loc.resolvedSourceUrl = IMG_BASE \o <<"/">> \o obs.upload.prompt

C20_Witness ==
    /\ UploadAnswered
    /\ obs.upload.ok
    /\ obs.upload.parses
    /\ ~obs.upload.success
    /\ obs.upload.prompt # <<>>
    /\ pc = "error"
    /\ result.error = "upload_failed"
    /\ net.statusRequests = 0

\* the last answered attempt gave the image: an inline payload that decodes,
\* or a URL payload whose secondary fetch succeeded
LastAttemptReady == obs.lastAttempt = "ready"

\* a directory was created or a file was written
FileTouched == fs.mkdirs > 0 \/ fs.writes > 0

\* C21: in generate_image, create_image and edit_image a directory is
\* created and the file at outputPath written only when outputPath was given
\* and the poller has reached Ready; the file is written at most once, after
\* the directory, with the decoded bytes; on a timeout, on a propagated poll
\* error and without outputPath nothing is created or written.
C21_FileOnlyAfterReady ==
    /\ fs.mkdirs <= 1
    /\ fs.writes <= 1
    /\ FileTouched =>
           /\ tool \in PollTools
           /\ args.outputPath # <<>>
           /\ LastAttemptReady
           /\ ~imageBuffer.null
    /\ fs.writes = 1 =>
           /\ fs.mkdirs = 1
           /\ fs.written = imageBuffer.bytes
           /\ fs.written = obs.payload
    /\ (PollerTimeout \/ PollerFailed \/ args.outputPath = <<>>) =>
           /\ ~FileTouched
           /\ fs.written = <<>>

====
